---- MODULE Spec2Model ----
(***************************************************************************)
(* CustomDataManager (custom_data/data_management.py) with its Config      *)
(* (custom_data/models.py) and its MCFNodes collection                     *)
(* (custom_data/models/mcf.py), as a state machine.  One action per public *)
(* method; `last` records the most recent call, its arguments and its      *)
(* outcome, so that properties of a call are stated over (state, last).    *)
(***************************************************************************)
EXTENDS Naturals, Integers, Sequences, FiniteSets, TLC

VARIABLES
    includeInputSubdirs,     \* Config.includeInputSubdirs : "None" | "True" | "False"
    groupStatVarsByProperty, \* Config.groupStatVarsByProperty
    inputFiles,              \* Config.inputFiles : file name -> InputFile
    variables,               \* Config.variables : <<>> (None) or <<statVar -> Variable>>
    sources,                 \* Config.sources : source name -> Source
    data,                    \* CustomDataManager._data : file name -> payload
    mcf_nodes,               \* CustomDataManager._mcf_nodes.nodes : sequence of nodes
    fs,                      \* the export directory
    last                     \* the most recent call and its outcome

config_vars == <<includeInputSubdirs, groupStatVarsByProperty, inputFiles, variables, sources>>
manager_vars == <<config_vars, data, mcf_nodes>>
vars == <<manager_vars, fs, last>>

(***************************************************************************)
(* Bounds of the model.                                                    *)
(***************************************************************************)
NumProvenances == 2
MaxNodes == 2
MaxBlocks == 4

None == "None"

ProvenancePool == <<"p1", "p2", "p3", "p4">>
ProvNames == {ProvenancePool[i] : i \in 1..NumProvenances}
FileNames == {"a.csv", "b.csv"}
RawUrls == {"http://a", "http://b/"}
Payloads == {"df1", "df2"}
StatVars == {"v1"}
NodeIds == {"n1", "n2"}

(***************************************************************************)
(* Python dicts as functions with a finite domain.                         *)
(***************************************************************************)
EmptyMap == [k \in {} |-> k]
Put(m, k, v) == [x \in (DOMAIN m) \cup {k} |-> IF x = k THEN v ELSE m[x]]
Del(m, k) == [x \in (DOMAIN m) \ {k} |-> m[x]]
Restrict(m, S) == [x \in (DOMAIN m) \cap S |-> m[x]]

\* pydantic HttpUrl: a URL with an empty path gets the path "/".
HttpUrl(u) == IF u = "http://a" THEN "http://a/" ELSE u

\* str.lower().endswith(".csv") over the file names of the model.
EndsWithCsv(key) == key \in {"a.csv", "b.csv", "c.CSV"}

(***************************************************************************)
(* InputFile (models.py): fields, the alias of data_format, validation.    *)
(***************************************************************************)
InputFileFields ==
    {"entityType", "ignoreColumns", "provenance", "data_format",
     "columnMappings", "observationProperties"}

\* Field(default=None, alias="format")
AliasOf(field) == IF field = "data_format" THEN "format" ELSE field

NewInputFile(provenance, entityType, data_format, columnMappings, observationProperties) ==
    [entityType |-> entityType, ignoreColumns |-> None, provenance |-> provenance,
     data_format |-> data_format, columnMappings |-> columnMappings,
     observationProperties |-> observationProperties]

\* InputFile.model_dump / model_dump_json: a dict keyed by field name, or by alias.
InputFileDump(f, by_alias, exclude_none) ==
    LET kept == {fld \in InputFileFields : ~exclude_none \/ f[fld] # None}
        keyOf(fld) == IF by_alias THEN AliasOf(fld) ELSE fld
    IN [k \in {keyOf(fld) : fld \in kept} |->
            f[CHOOSE fld \in kept : keyOf(fld) = k]]

Get(d, k) == IF k \in DOMAIN d THEN d[k] ELSE None

\* Mutant: the schema-choice check does not count format == variablePerRow
\* as a use of the explicit schema.
SchemaChoiceOK_IgnoringFormat(entityType, observationProperties, columnMappings, data_format) ==
    ~((entityType # None \/ observationProperties # None) /\ columnMappings # None)

\* InputFile.validate_schema_choice
SchemaChoiceOK(entityType, observationProperties, columnMappings, data_format) ==
    LET using_implicit == entityType # None \/ observationProperties # None
        using_explicit == columnMappings # None \/ data_format = "variablePerRow"
    IN ~(using_implicit /\ using_explicit)

\* Validation of a dict as an InputFile: keys are matched by alias only
\* (InputFile's own model_config has extra="forbid" and no populate_by_name),
\* provenance is required, then validate_schema_choice.
InputFileValid(d) ==
    /\ DOMAIN d \subseteq {AliasOf(fld) : fld \in InputFileFields}
    /\ Get(d, "provenance") # None
    /\ Get(d, "format") \in {None, "variablePerColumn", "variablePerRow"}
    /\ SchemaChoiceOK(Get(d, "entityType"), Get(d, "observationProperties"),
                      Get(d, "columnMappings"), Get(d, "format"))

InputFileParse(d) ==
    [fld \in InputFileFields |-> Get(d, AliasOf(fld))]

\* The keyword arguments of the model for an InputFile: the keys that are
\* set, by alias.
InputFileDicts ==
    {[k \in {k \in DOMAIN r : r[k] # None} |-> r[k]] :
        r \in [entityType : {None, "Country"},
               ignoreColumns : {None, "[x]"},
               provenance : {None} \cup ProvNames,
               format : {None, "variablePerColumn", "variablePerRow"},
               columnMappings : {None, "{entity}"},
               observationProperties : {None, "{unit}"}]}

(***************************************************************************)
(* Config (models.py): the two model validators, validate_config.          *)
(***************************************************************************)
\* Config.validate_input_file_keys_are_csv
InputFileKeysAreCsv(files) == \A key \in DOMAIN files : EndsWithCsv(key)

KnownProvenances(srcs) == UNION {DOMAIN srcs[s].provenances : s \in DOMAIN srcs}

\* Mutant: the provenance check accepts every provenance.
ProvenanceInSources_Unchecked(files, srcs) == TRUE

\* Config.validate_provenance_in_sources
ProvenanceInSources(files, srcs) ==
    \A key \in DOMAIN files : files[key].provenance \in KnownProvenances(srcs)

\* The mode="after" validators of Config, run on construction and, because of
\* validate_assignment=True, on every attribute assignment.
ConfigAfterValidators(files, srcs) ==
    InputFileKeysAreCsv(files) /\ ProvenanceInSources(files, srcs)

\* Config.model_validate of a dict {inputFiles: key -> dict, sources}:
\* the nested InputFile dicts are validated first, then the after-validators.
ConfigModelValidate(fileDicts, srcs) ==
    /\ \A key \in DOMAIN fileDicts : InputFileValid(fileDicts[key])
    /\ ConfigAfterValidators(
           [key \in DOMAIN fileDicts |-> InputFileParse(fileDicts[key])], srcs)

\* Config.validate_config: Config.model_validate(self.model_dump());
\* model_dump() is by field name and keeps the None fields.
ConfigValidateConfig ==
    ConfigModelValidate(
        [key \in DOMAIN inputFiles |-> InputFileDump(inputFiles[key], FALSE, FALSE)],
        sources)

(***************************************************************************)
(* The record of a call.                                                   *)
(***************************************************************************)
NoCall ==
    [op |-> "init", key |-> None, prov |-> None, src |-> None, purl |-> None,
     surl |-> None, override |-> FALSE, payload |-> None, opt |-> None,
     result |-> "ok", twice |-> FALSE]

Call(op, result) == [NoCall EXCEPT !.op = op, !.result = result]

EmptyFs == [config_json |-> <<>>, csv |-> EmptyMap, mcf |-> <<>>]

Init ==
    /\ includeInputSubdirs = None
    /\ groupStatVarsByProperty = None
    /\ inputFiles = EmptyMap
    /\ variables = <<>>
    /\ sources = EmptyMap
    /\ data = EmptyMap
    /\ mcf_nodes = <<>>
    /\ fs = EmptyFs
    /\ last = NoCall

(***************************************************************************)
(* CustomDataManager: the mutation methods.                                *)
(***************************************************************************)
PyBool(b) == IF b THEN "True" ELSE "False"

\* set_includeInputSubdirs: an attribute assignment on Config.  With
\* validate_assignment=True the after-validators run against the current
\* inputFiles and sources; when they raise, the new value has or has not
\* been stored, depending on the pydantic release.
set_includeInputSubdirs(set_value) ==
    /\ IF ConfigAfterValidators(inputFiles, sources)
       THEN /\ includeInputSubdirs' = PyBool(set_value)
            /\ last' = [Call("set_includeInputSubdirs", "ok") EXCEPT !.opt = PyBool(set_value)]
       ELSE /\ includeInputSubdirs' \in {includeInputSubdirs, PyBool(set_value)}
            /\ last' = [Call("set_includeInputSubdirs", "ValidationError")
                           EXCEPT !.opt = PyBool(set_value)]
    /\ UNCHANGED <<groupStatVarsByProperty, inputFiles, variables, sources, data, mcf_nodes, fs>>

set_groupStatVarsByProperty(set_value) ==
    /\ IF ConfigAfterValidators(inputFiles, sources)
       THEN /\ groupStatVarsByProperty' = PyBool(set_value)
            /\ last' = [Call("set_groupStatVarsByProperty", "ok") EXCEPT !.opt = PyBool(set_value)]
       ELSE /\ groupStatVarsByProperty' \in {groupStatVarsByProperty, PyBool(set_value)}
            /\ last' = [Call("set_groupStatVarsByProperty", "ValidationError")
                           EXCEPT !.opt = PyBool(set_value)]
    /\ UNCHANGED <<includeInputSubdirs, inputFiles, variables, sources, data, mcf_nodes, fs>>

\* Source(url=source_url, provenances={provenance_name: provenance_url})
NewSource(source_url, provenance_name, provenance_url) ==
    [url |-> HttpUrl(source_url),
     provenances |-> Put(EmptyMap, provenance_name, HttpUrl(provenance_url))]

\* add_provenance as it would be if a later call rewrote the URL of the Source.
AddProvenanceSources_UpdatingUrl(provenance_name, provenance_url, source_name, source_url) ==
    IF source_name \notin DOMAIN sources
    THEN Put(sources, source_name, NewSource(source_url, provenance_name, provenance_url))
    ELSE [sources EXCEPT ![source_name] =
              [url |-> IF source_url = None THEN @.url ELSE HttpUrl(source_url),
               provenances |-> Put(@.provenances, provenance_name, HttpUrl(provenance_url))]]

\* The sources after add_provenance succeeded.
AddProvenanceSources(provenance_name, provenance_url, source_name, source_url) ==
    IF source_name \notin DOMAIN sources
    THEN Put(sources, source_name, NewSource(source_url, provenance_name, provenance_url))
    ELSE [sources EXCEPT ![source_name].provenances =
              Put(@, provenance_name, HttpUrl(provenance_url))]

\* The error add_provenance raises, or "ok".
AddProvenanceResult(provenance_name, source_name, source_url, override) ==
    IF source_name \notin DOMAIN sources
    THEN IF source_url = None THEN "MissingSourceUrl" ELSE "ok"
    ELSE IF provenance_name \in DOMAIN sources[source_name].provenances /\ ~override
         THEN "DuplicateError" ELSE "ok"

add_provenance(provenance_name, provenance_url, source_name, source_url, override) ==
    LET result == AddProvenanceResult(provenance_name, source_name, source_url, override)
    IN /\ sources' = IF result = "ok"
                     THEN AddProvenanceSources(provenance_name, provenance_url,
                                               source_name, source_url)
                     ELSE sources
       /\ last' = [Call("add_provenance", result) EXCEPT
                      !.prov = provenance_name, !.purl = provenance_url,
                      !.src = source_name, !.surl = source_url, !.override = override]
       /\ UNCHANGED <<includeInputSubdirs, groupStatVarsByProperty, inputFiles, variables,
                      data, mcf_nodes, fs>>

\* Variable(name=..., properties=...)
NewVariable(name, properties) == [name |-> name, properties |-> properties]

\* add_variable_to_config.  `self._config.variables = {}` is an attribute
\* assignment on Config, validated like the two setters above.
add_variable_to_config(statVar, name, properties, override) ==
    LET call == [Call("add_variable_to_config", "ok") EXCEPT !.key = statVar, !.opt = name,
                                                            !.override = override]
        current == IF variables = <<>> THEN EmptyMap ELSE variables[1]
    IN /\ IF variables = <<>> /\ ~ConfigAfterValidators(inputFiles, sources)
          THEN /\ variables' \in {<<>>, <<EmptyMap>>}
               /\ last' = [call EXCEPT !.result = "ValidationError"]
          ELSE IF statVar \in DOMAIN current /\ ~override
          THEN /\ variables' = variables
               /\ last' = [call EXCEPT !.result = "DuplicateError"]
          ELSE /\ variables' = <<Put(current, statVar, NewVariable(name, properties))>>
               /\ last' = call
       /\ UNCHANGED <<includeInputSubdirs, groupStatVarsByProperty, inputFiles, sources,
                      data, mcf_nodes, fs>>

\* _data_override_check raises.
DataOverrideCheckRaises(file_name, override) == file_name \in DOMAIN data /\ ~override

\* The data map after `if data is not None: self._data[file_name] = data`.
RegisterData(file_name, payload) ==
    IF payload # None THEN Put(data, file_name, payload) ELSE data

\* The error add_implicit_schema_file raises, or "ok":
\* ObservationProperties(**observationProperties) with the default None is a TypeError.
AddImplicitResult(file_name, observationProperties, override) ==
    IF DataOverrideCheckRaises(file_name, override) THEN "DuplicateError"
    ELSE IF observationProperties = None THEN "TypeError"
    ELSE "ok"

add_implicit_schema_file(file_name, provenance, payload, entityType, observationProperties, override) ==
    LET result == AddImplicitResult(file_name, observationProperties, override)
    IN /\ IF result = "ok"
          THEN /\ inputFiles' = Put(inputFiles, file_name,
                       NewInputFile(provenance, entityType, None, None, observationProperties))
               /\ data' = RegisterData(file_name, payload)
          ELSE UNCHANGED <<inputFiles, data>>
       /\ last' = [Call("add_implicit_schema_file", result) EXCEPT
                      !.key = file_name, !.prov = provenance, !.payload = payload,
                      !.opt = observationProperties, !.override = override]
       /\ UNCHANGED <<includeInputSubdirs, groupStatVarsByProperty, variables, sources,
                      mcf_nodes, fs>>

\* ColumnMappings(**columnMappings) with the default None is a TypeError.
AddExplicitResult(file_name, columnMappings, override) ==
    IF DataOverrideCheckRaises(file_name, override) THEN "DuplicateError"
    ELSE IF columnMappings = None THEN "TypeError"
    ELSE "ok"

add_explicit_schema_file(file_name, provenance, payload, columnMappings, override) ==
    LET result == AddExplicitResult(file_name, columnMappings, override)
    IN /\ IF result = "ok"
          THEN /\ inputFiles' = Put(inputFiles, file_name,
                       NewInputFile(provenance, None, None, columnMappings, None))
               /\ data' = RegisterData(file_name, payload)
          ELSE UNCHANGED <<inputFiles, data>>
       /\ last' = [Call("add_explicit_schema_file", result) EXCEPT
                      !.key = file_name, !.prov = provenance, !.payload = payload,
                      !.opt = columnMappings, !.override = override]
       /\ UNCHANGED <<includeInputSubdirs, groupStatVarsByProperty, variables, sources,
                      mcf_nodes, fs>>

\* add_data as it would be without the check that the file is registered.
AddDataResult_NoRegistrationCheck(file_name, override) ==
    IF DataOverrideCheckRaises(file_name, override) THEN "DuplicateError" ELSE "ok"

\* The error add_data raises, or "ok".
AddDataResult(file_name, override) ==
    IF file_name \notin DOMAIN inputFiles THEN "NotRegistered"
    ELSE IF DataOverrideCheckRaises(file_name, override) THEN "DuplicateError"
    ELSE "ok"

add_data(payload, file_name, override) ==
    LET result == AddDataResult(file_name, override)
    IN /\ data' = IF result = "ok" THEN Put(data, file_name, payload) ELSE data
       /\ last' = [Call("add_data", result) EXCEPT
                      !.key = file_name, !.payload = payload, !.override = override]
       /\ UNCHANGED <<config_vars, mcf_nodes, fs>>

(***************************************************************************)
(* MCFNodes (models/mcf.py).                                               *)
(***************************************************************************)
NewNode(id, provenance) == [Node |-> id, provenance |-> provenance]

\* MCFNodes.add: self.nodes.append(node)
MCFNodesAdd(nodes, node) == Append(nodes, node)

\* add_variable_group_to_mcf / add_variable_to_mcf: build the node and hand it
\* to the collection's add.
add_variable_group_to_mcf(Node, provenance, override) ==
    /\ Len(mcf_nodes) < MaxNodes
    /\ mcf_nodes' = MCFNodesAdd(mcf_nodes, NewNode(Node, provenance))
    /\ last' = [Call("add_variable_group_to_mcf", "ok") EXCEPT
                   !.key = Node, !.prov = provenance, !.override = override]
    /\ UNCHANGED <<config_vars, data, fs>>

\* MCFNodes.remove: the nodes whose Node differs from node_id, in order.
MCFNodesRemove(nodes, node_id) == SelectSeq(nodes, LAMBDA node : node.Node # node_id)

\* MCFNodes.remove as it would be without the check of the length.
MCFNodesRemoveResult_NeverRaising(nodes, node_id) == "ok"

\* MCFNodes.remove raises when the list kept its length.
MCFNodesRemoveResult(nodes, node_id) ==
    IF Len(MCFNodesRemove(nodes, node_id)) = Len(nodes) THEN "NotFound" ELSE "ok"

\* MCFNodes.remove called on the collection of the manager.  self.nodes is
\* assigned the filtered list before the check; for an absent id it is the
\* same list.
mcf_nodes_remove(node_id) ==
    /\ mcf_nodes' = MCFNodesRemove(mcf_nodes, node_id)
    /\ last' = [Call("remove", MCFNodesRemoveResult(mcf_nodes, node_id)) EXCEPT !.key = node_id]
    /\ UNCHANGED <<config_vars, data, fs>>

\* A line of an MCF file after raw_line.strip() and stripped.partition(":"):
\* a blank line, a "key: value" line, a line without a colon.
BlankLine == [blank |-> TRUE, key |-> "", sep |-> FALSE, value |-> ""]
KeyValueLine(key, value) == [blank |-> FALSE, key |-> key, sep |-> TRUE, value |-> value]
NoColonLine == [blank |-> FALSE, key |-> "text", sep |-> FALSE, value |-> ""]

\* The MCF files of the model: file -> its lines.
McfFiles ==
    [file \in {"nodes.mcf", "twice.mcf", "nonode.mcf", "late.mcf", "nocolon.mcf",
               "novalue.mcf", "nokey.mcf"} |->
        CASE file = "nodes.mcf" ->
                <<KeyValueLine("Node", "n1"), KeyValueLine("provenance", "p1"), BlankLine,
                  KeyValueLine("Node", "n2"), BlankLine>>
          [] file = "twice.mcf" ->
                <<KeyValueLine("Node", "n1"), BlankLine, BlankLine, KeyValueLine("Node", "n1")>>
          [] file = "nonode.mcf" ->
                <<KeyValueLine("Node", "n2"), BlankLine, KeyValueLine("provenance", "p1"),
                  BlankLine>>
          [] file = "late.mcf" ->
                <<KeyValueLine("provenance", "p1"), KeyValueLine("Node", "n1"), BlankLine>>
          [] file = "nocolon.mcf" ->
                <<KeyValueLine("Node", "n1"), BlankLine, KeyValueLine("Node", "n2"),
                  NoColonLine, BlankLine>>
          [] file = "novalue.mcf" ->
                <<KeyValueLine("Node", "n1"), KeyValueLine("provenance", "")>>
          [] OTHER -> <<KeyValueLine("", "p1")>>]

\* MCFNode(**block): a property the block lacks is None.
BlockToNode(block) == [Node |-> block.Node, provenance |-> Get(block, "provenance")]

\* _flush raises: the block is not empty and has no Node key.
FlushRaises(block) == block # EmptyMap /\ "Node" \notin DOMAIN block

\* The nodes after _flush stored the block: an empty block stores nothing.
Flushed(nodes, block) ==
    IF block = EmptyMap THEN nodes ELSE Append(nodes, BlockToNode(block))

MissingNodeError == "Missing mandatory 'Node:' line in block"

InvalidSyntaxError(line_no) == "Invalid MCF syntax on line " \o ToString(line_no)

\* The loop of load_from_mcf_file from line line_no on, and the final
\* _flush: the nodes of the collection and the error raised, or "ok".
\* _flush appends to self.nodes as each block ends, so the nodes stored
\* before an error stay in the collection.
RECURSIVE ParseLines(_, _, _, _)
ParseLines(lines, line_no, current_block, nodes) ==
    IF line_no > Len(lines)
    THEN IF FlushRaises(current_block)
         THEN [nodes |-> nodes, result |-> MissingNodeError]
         ELSE [nodes |-> Flushed(nodes, current_block), result |-> "ok"]
    ELSE IF lines[line_no].blank
    THEN IF FlushRaises(current_block)
         THEN [nodes |-> nodes, result |-> MissingNodeError]
         ELSE ParseLines(lines, line_no + 1, EmptyMap, Flushed(nodes, current_block))
    ELSE IF ~lines[line_no].sep \/ lines[line_no].key = "" \/ lines[line_no].value = ""
    THEN [nodes |-> nodes, result |-> InvalidSyntaxError(line_no)]
    ELSE ParseLines(lines, line_no + 1,
                    Put(current_block, lines[line_no].key, lines[line_no].value), nodes)

load_from_mcf_file(file_path) ==
    LET parsed == ParseLines(McfFiles[file_path], 1, EmptyMap, mcf_nodes)
    IN /\ Len(parsed.nodes) <= MaxNodes
       /\ mcf_nodes' = parsed.nodes
       /\ last' = [Call("load_from_mcf_file", parsed.result) EXCEPT !.key = file_path]
       /\ UNCHANGED <<config_vars, data, fs>>

\* The CSV files of StatVar metadata: file -> rows, a row being its
\* non-empty cells.
CsvFiles ==
    [file \in {"vars.csv", "same.csv", "sv1_AX.csv", "sv2_BX.csv", "sv2_XA.csv", "sv2_AXY.csv",
               "sv2_care.csv", "sv1_care.csv", "sv1_none.csv"} |->
        CASE file = "vars.csv" -> <<[Node |-> "n1"], [Node |-> "n2", provenance |-> "p1"]>>
          [] file = "same.csv" -> <<[Node |-> "n1"], [Node |-> "n1", provenance |-> "p1"]>>
          [] file = "sv1_AX.csv" -> <<[Node |-> "sv1", memberOf |-> "A/X"]>>
          [] file = "sv2_BX.csv" -> <<[Node |-> "sv2", memberOf |-> "B/X"]>>
          [] file = "sv2_XA.csv" -> <<[Node |-> "sv2", memberOf |-> "X/A"]>>
          [] file = "sv2_AXY.csv" -> <<[Node |-> "sv2", memberOf |-> "A/X/Y"]>>
          [] file = "sv2_care.csv" -> <<[Node |-> "sv2", memberOf |-> "/A//Health Care/"]>>
          [] file = "sv1_care.csv" -> <<[Node |-> "sv1", memberOf |-> "healthCare"]>>
          [] OTHER -> <<[Node |-> "sv1"]>>]

\* StatVarMCFNode(**record): memberOf is a declared field, None when the row
\* has no such cell.
RowToStatVar(record) ==
    [Node |-> record.Node, provenance |-> Get(record, "provenance"),
     memberOf |-> Get(record, "memberOf")]

\* for node in stat_vars.nodes: self._mcf_nodes.add(node, override=override)
RECURSIVE MCFNodesAddAll(_, _)
MCFNodesAddAll(nodes, rows) ==
    IF rows = <<>> THEN nodes
    ELSE MCFNodesAddAll(MCFNodesAdd(nodes, RowToStatVar(Head(rows))), Tail(rows))

add_variables_to_mcf_from_csv(file_path, override) ==
    /\ Len(mcf_nodes) + Len(CsvFiles[file_path]) <= MaxNodes
    /\ mcf_nodes' = MCFNodesAddAll(mcf_nodes, CsvFiles[file_path])
    /\ last' = [Call("add_variables_to_mcf_from_csv", "ok") EXCEPT
                   !.key = file_path, !.override = override]
    /\ UNCHANGED <<config_vars, data, fs>>

(***************************************************************************)
(* schema_tools.py: the group-hierarchy builder.                           *)
(***************************************************************************)
\* The memberOf paths of the model.
RawPaths == {"A/X", "B/X", "X/A", "A/X/Y", "/A//Health Care/", "healthCare"}

\* raw.lstrip("-").strip("/ "), split on "/", empty parts dropped.
PathParts(raw) ==
    CASE raw = "A/X" -> <<"A", "X">>
      [] raw = "B/X" -> <<"B", "X">>
      [] raw = "X/A" -> <<"X", "A">>
      [] raw = "A/X/Y" -> <<"A", "X", "Y">>
      [] raw = "/A//Health Care/" -> <<"A", "Health Care">>
      [] raw = "healthCare" -> <<"healthCare">>

\* to_camelCase: an all-upper segment (A, B, X, Y) and a segment that is
\* camel case already (healthCare) are returned as they are; the words of
\* any other segment are joined, the first in lower case, the rest titled.
to_camelCase(segment) ==
    IF segment = "Health Care" THEN "healthCare" ELSE segment

\* root + slug: the Node id of the group of one path segment.
GroupNodeId(groups_namespace, part) == ("dcid: " \o groups_namespace \o "/g/") \o to_camelCase(part)

RootGroup == "dcid: dc/g/Root"

\* Mutant: a group below the top level is given itself as parent.
NewGroupNode_OwnParent(groups_namespace, parts, idx) ==
    [Node |-> GroupNodeId(groups_namespace, parts[idx]),
     provenance |-> None,
     name |-> parts[idx],
     specializationOf |-> IF idx = 1 THEN "dcid: dc/g/Root"
                          ELSE GroupNodeId(groups_namespace, parts[idx])]

\* StatVarGroupMCFNode(Node=group_node, name=part, specializationOf=parent)
NewGroupNode(groups_namespace, parts, idx) ==
    [Node |-> GroupNodeId(groups_namespace, parts[idx]),
     provenance |-> None,
     name |-> parts[idx],
     specializationOf |-> IF idx = 1 THEN RootGroup
                          ELSE GroupNodeId(groups_namespace, parts[idx - 1])]

\* The inner loop over the parts of one path: group_nodes after it.  The set
\* seen holds the ids of the nodes in group_nodes.
RECURSIVE GroupsOfPath(_, _, _, _)
GroupsOfPath(groups_namespace, parts, idx, group_nodes) ==
    IF idx > Len(parts) THEN group_nodes
    ELSE IF \E g \in 1..Len(group_nodes) :
               group_nodes[g].Node = GroupNodeId(groups_namespace, parts[idx])
    THEN GroupsOfPath(groups_namespace, parts, idx + 1, group_nodes)
    ELSE GroupsOfPath(groups_namespace, parts, idx + 1,
                      Append(group_nodes, NewGroupNode(groups_namespace, parts, idx)))

\* The outer loop over the first count nodes: group_nodes after it.
RECURSIVE GroupsOfNodes(_, _, _)
GroupsOfNodes(groups_namespace, nodes, count) ==
    IF count = 0 THEN <<>>
    ELSE GroupsOfPath(groups_namespace, PathParts(nodes[count].memberOf), 1,
                      GroupsOfNodes(groups_namespace, nodes, count - 1))

\* node.memberOf can be read and stripped: the node has the attribute and it is a string.
HasPath(node) == IF "memberOf" \in DOMAIN node THEN node.memberOf # None ELSE FALSE

\* Mutant: the builder leaves memberOf as the caller wrote it.
WithDeepestGroup_KeepingRawPath(groups_namespace, node) == node

\* stat_vars.nodes[node_idx].memberOf = group_node, for the last part of the path.
WithDeepestGroup(groups_namespace, node) ==
    LET parts == PathParts(node.memberOf)
    IN IF parts = <<>> THEN node
       ELSE [node EXCEPT !.memberOf = GroupNodeId(groups_namespace, parts[Len(parts)])]

\* The number of leading nodes the loop processes before node.memberOf raises.
RECURSIVE NodesWithPath(_)
NodesWithPath(nodes) ==
    IF nodes = <<>> THEN 0
    ELSE IF ~HasPath(Head(nodes)) THEN 0
    ELSE 1 + NodesWithPath(Tail(nodes))

\* build_stat_var_groups_from_strings(stat_vars).nodes.  memberOf is
\* rewritten in place as the loop goes; the groups are appended after the
\* loop, so an AttributeError in the loop leaves the rewritten memberOf
\* behind and appends nothing.
BuildStatVarGroups(groups_namespace, nodes) ==
    LET done == NodesWithPath(nodes)
        rewritten == [i \in 1..Len(nodes) |->
                         IF i <= done THEN WithDeepestGroup(groups_namespace, nodes[i])
                         ELSE nodes[i]]
    IN IF done = Len(nodes)
       THEN rewritten \o GroupsOfNodes(groups_namespace, nodes, Len(nodes))
       ELSE rewritten

\* The builder applied to the collection of the manager.  The model applies
\* it to collections whose memberOf values are paths as the caller wrote
\* them.
build_stat_var_groups_from_strings(groups_namespace) ==
    /\ \A i \in 1..Len(mcf_nodes) : HasPath(mcf_nodes[i]) => mcf_nodes[i].memberOf \in RawPaths
    /\ mcf_nodes' = BuildStatVarGroups(groups_namespace, mcf_nodes)
    /\ last' = [Call("build_stat_var_groups_from_strings",
                     IF NodesWithPath(mcf_nodes) = Len(mcf_nodes) THEN "ok"
                     ELSE "AttributeError")
                   EXCEPT !.key = groups_namespace]
    /\ UNCHANGED <<config_vars, data, fs>>

(***************************************************************************)
(* validate_config, config_to_dict.                                        *)
(***************************************************************************)
ValidationResult == IF ConfigValidateConfig THEN "ok" ELSE "ValidationError"

validate_config ==
    /\ last' = Call("validate_config", ValidationResult)
    /\ UNCHANGED <<manager_vars, fs>>

config_to_dict ==
    /\ last' = Call("config_to_dict", ValidationResult)
    /\ UNCHANGED <<manager_vars, fs>>

(***************************************************************************)
(* The export methods.                                                     *)
(***************************************************************************)
\* self._config.model_dump_json(indent=4, exclude_none=True): the dumped
\* structure, keyed by field name.  A None field of Config is left out of the
\* text; here it shows as None (<<>> for variables).
ConfigDumpJson ==
    [includeInputSubdirs |-> includeInputSubdirs,
     groupStatVarsByProperty |-> groupStatVarsByProperty,
     inputFiles |-> [key \in DOMAIN inputFiles |-> InputFileDump(inputFiles[key], FALSE, TRUE)],
     variables |-> variables,
     sources |-> sources]

\* The directory after export_config wrote config.json (mode "w").
WriteConfig(dir) == [dir EXCEPT !.config_json = <<ConfigDumpJson>>]

\* The directory after export_data wrote one CSV per key of the data map.
WriteData(dir) ==
    [dir EXCEPT !.csv = [f \in (DOMAIN dir.csv) \cup (DOMAIN data) |->
                            IF f \in DOMAIN data THEN data[f] ELSE dir.csv[f]]]

\* MCFNode.mcf: the block of one node, its non-None properties.
NodeMcf(node) ==
    [k \in {x \in DOMAIN node : node[x] # None} |-> node[k]]

NodeBlocks(nodes) == [i \in 1..Len(nodes) |-> NodeMcf(nodes[i])]

\* The export as it would be if the file were always opened in mode "w".
MCFNodesExport_AlwaysTruncating(file, nodes, overwrite) == <<NodeBlocks(nodes)>>

\* MCFNodes.export_to_mcf_file: mode "w" if overwrite else "a".
MCFNodesExport(file, nodes, overwrite) ==
    IF overwrite \/ file = <<>>
    THEN <<NodeBlocks(nodes)>>
    ELSE <<file[1] \o NodeBlocks(nodes)>>

WriteMcf(dir, override) == [dir EXCEPT !.mcf = MCFNodesExport(dir.mcf, mcf_nodes, override)]

\* The model follows an MCF file up to MaxBlocks blocks.
McfFileFits(override) ==
    IF override THEN TRUE
    ELSE IF fs.mcf = <<>> THEN TRUE
    ELSE Len(fs.mcf[1]) + Len(mcf_nodes) <= MaxBlocks

ExportCall(op, result, override) ==
    [Call(op, result) EXCEPT
        !.override = override,
        !.twice = (last.op = op /\ last.override = override /\ last.result = "ok")]

export_config ==
    /\ fs' = IF ValidationResult = "ok" THEN WriteConfig(fs) ELSE fs
    /\ last' = ExportCall("export_config", ValidationResult, FALSE)
    /\ UNCHANGED manager_vars

\* Mutant: export_data looks at the registered InputFiles, not at the data map.
ExportDataResult_ByInputFiles == IF inputFiles = EmptyMap THEN "NoData" ELSE "ok"

\* if not self._data: raise ValueError("No data to export")
ExportDataResult == IF data = EmptyMap THEN "NoData" ELSE "ok"

export_data ==
    /\ fs' = IF ExportDataResult = "ok" THEN WriteData(fs) ELSE fs
    /\ last' = ExportCall("export_data", ExportDataResult, FALSE)
    /\ UNCHANGED manager_vars

export_mfc_file(override) ==
    /\ McfFileFits(override)
    /\ fs' = WriteMcf(fs, override)
    /\ last' = ExportCall("export_mfc_file", "ok", override)
    /\ UNCHANGED manager_vars

\* export_all: export_config, then export_data, then export_mfc_file when
\* the collection holds a node; the first step that raises ends the call.
ExportAllResult ==
    IF ValidationResult # "ok" THEN ValidationResult ELSE ExportDataResult

\* Mutant: export_all checks every step before it writes anything.
ExportAllFs_AllOrNothing(override) ==
    IF ValidationResult # "ok" \/ ExportDataResult # "ok" THEN fs
    ELSE IF Len(mcf_nodes) > 0 THEN WriteMcf(WriteData(WriteConfig(fs)), override)
    ELSE WriteData(WriteConfig(fs))

ExportAllFs(override) ==
    IF ValidationResult # "ok" THEN fs
    ELSE IF ExportDataResult # "ok" THEN WriteConfig(fs)
    ELSE IF Len(mcf_nodes) > 0 THEN WriteMcf(WriteData(WriteConfig(fs)), override)
    ELSE WriteData(WriteConfig(fs))

export_all(override) ==
    /\ McfFileFits(override)
    /\ fs' = ExportAllFs(override)
    /\ last' = ExportCall("export_all", ExportAllResult, override)
    /\ UNCHANGED manager_vars

\* MCFNodes.export_to_mcf_file called on the collection itself.
mcf_nodes_export_to_mcf_file(overwrite) ==
    /\ McfFileFits(overwrite)
    /\ fs' = WriteMcf(fs, overwrite)
    /\ last' = ExportCall("export_to_mcf_file", "ok", overwrite)
    /\ UNCHANGED manager_vars

(***************************************************************************)
(* Construction from a config file: Config.from_json.                      *)
(***************************************************************************)
JsonSource == [url |-> "http://a", provenances |-> [p \in {"p1"} |-> "http://b/"]]

\* The config.json documents of the model: name -> parsed JSON object.
JsonDocs ==
    [doc \in {"implicit.json", "format.json", "unknown.json", "txt.json", "conflict.json"} |->
        [sources |-> [s \in {"s1"} |-> JsonSource],
         inputFiles |->
            IF doc = "implicit.json"
            THEN [k \in {"a.csv"} |-> [provenance |-> "p1", entityType |-> "Country"]]
            ELSE IF doc = "format.json"
            THEN [k \in {"a.csv"} |-> [provenance |-> "p1", format |-> "variablePerRow"]]
            ELSE IF doc = "unknown.json"
            THEN [k \in {"a.csv"} |-> [provenance |-> "unknown"]]
            ELSE IF doc = "txt.json"
            THEN [k \in {"data.txt"} |-> [provenance |-> "p1"]]
            ELSE [k \in {"a.csv"} |-> [provenance |-> "p1", entityType |-> "Country",
                                       columnMappings |-> "{entity}"]]]]

\* Source validated from JSON: both URLs become HttpUrl.
SourceParse(s) ==
    [url |-> HttpUrl(s.url),
     provenances |-> [p \in DOMAIN s.provenances |-> HttpUrl(s.provenances[p])]]

\* CustomDataManager(config_file=doc): the first call on the manager.
from_json(doc) ==
    LET json == JsonDocs[doc]
        ok == ConfigModelValidate(json.inputFiles, json.sources)
    IN /\ last.op = "init"
       /\ IF ok
          THEN /\ inputFiles' = [k \in DOMAIN json.inputFiles |->
                                    InputFileParse(json.inputFiles[k])]
               /\ sources' = [s \in DOMAIN json.sources |-> SourceParse(json.sources[s])]
          ELSE UNCHANGED <<inputFiles, sources>>
       /\ last' = [Call("from_json", IF ok THEN "ok" ELSE "ValidationError")
                      EXCEPT !.key = doc]
       /\ UNCHANGED <<includeInputSubdirs, groupStatVarsByProperty, variables,
                      data, mcf_nodes, fs>>

(***************************************************************************)
(* Construction from a directory: from_config_files_in_directory.          *)
(***************************************************************************)
\* The config.json of the subdirectories: subdirectory -> parsed JSON object.
SubdirConfigs ==
    [sub \in {"one", "two", "dup", "other"} |->
        [includeInputSubdirs |-> IF sub = "one" THEN "True" ELSE None,
         sources |->
            [s \in {IF sub = "other" THEN "s2" ELSE "s1"} |->
                [url |-> "http://a",
                 provenances |-> [p \in {IF sub = "one" THEN "p1" ELSE "p2"} |-> "http://b/"]]],
         inputFiles |->
            [k \in {IF sub \in {"one", "dup"} THEN "a.csv" ELSE "b.csv"} |->
                [provenance |-> IF sub = "one" THEN "p1" ELSE "p2",
                 entityType |-> "Country"]]]]

\* The directories of the model: name -> the subdirectories that hold a config.json.
Directories ==
    [dir \in {"single", "pair", "split", "clash", "clash3"} |->
        CASE dir = "single" -> {"one"}
          [] dir = "pair" -> {"one", "two"}
          [] dir = "split" -> {"one", "other"}
          [] dir = "clash" -> {"one", "dup"}
          [] OTHER -> {"one", "two", "dup"}]

\* Two loaded configs register the same InputFile key.
MergeHasDuplicateFile(subs) ==
    \E a \in subs, b \in subs :
        /\ a # b
        /\ (DOMAIN SubdirConfigs[a].inputFiles) \cap (DOMAIN SubdirConfigs[b].inputFiles) # {}

MergedInputFiles(subs) ==
    [k \in UNION {DOMAIN SubdirConfigs[d].inputFiles : d \in subs} |->
        InputFileParse(SubdirConfigs[CHOOSE d \in subs :
                                        k \in DOMAIN SubdirConfigs[d].inputFiles].inputFiles[k])]

\* The merge as it would be if a Source kept the provenances of one config only.
MergedProvenances_OfOneConfig(subs, s) ==
    LET d == CHOOSE d \in subs : s \in DOMAIN SubdirConfigs[d].sources
    IN [p \in DOMAIN SubdirConfigs[d].sources[s].provenances |->
           HttpUrl(SubdirConfigs[d].sources[s].provenances[p])]

\* The provenances of the Sources named s, unioned.
MergedProvenances(subs, s) ==
    LET holders == {d \in subs : s \in DOMAIN SubdirConfigs[d].sources}
    IN [p \in UNION {DOMAIN SubdirConfigs[d].sources[s].provenances : d \in holders} |->
           HttpUrl(SubdirConfigs[CHOOSE d \in holders :
                       p \in DOMAIN SubdirConfigs[d].sources[s].provenances].sources[s].provenances[p])]

MergedSources(subs) ==
    [s \in UNION {DOMAIN SubdirConfigs[d].sources : d \in subs} |->
        [url |-> HttpUrl(SubdirConfigs[CHOOSE d \in subs :
                                          s \in DOMAIN SubdirConfigs[d].sources].sources[s].url),
         provenances |-> MergedProvenances(subs, s)]]

MergedIncludeInputSubdirs(subs) ==
    IF \E d \in subs : SubdirConfigs[d].includeInputSubdirs # None
    THEN SubdirConfigs[CHOOSE d \in subs :
                          SubdirConfigs[d].includeInputSubdirs # None].includeInputSubdirs
    ELSE None

MergeResult(subs) ==
    IF \E d \in subs : ~ConfigModelValidate(SubdirConfigs[d].inputFiles, SubdirConfigs[d].sources)
    THEN "ValidationError"
    ELSE IF MergeHasDuplicateFile(subs) THEN "DuplicateError"
    ELSE "ok"

\* CustomDataManager.from_config_files_in_directory(dir): the first call;
\* when it raises there is no manager.
from_config_files_in_directory(dir) ==
    LET subs == Directories[dir]
        result == MergeResult(subs)
    IN /\ last.op = "init"
       /\ IF result = "ok"
          THEN /\ inputFiles' = MergedInputFiles(subs)
               /\ sources' = MergedSources(subs)
               /\ includeInputSubdirs' = MergedIncludeInputSubdirs(subs)
          ELSE UNCHANGED <<inputFiles, sources, includeInputSubdirs>>
       /\ last' = [Call("from_config_files_in_directory", result) EXCEPT !.key = dir]
       /\ UNCHANGED <<groupStatVarsByProperty, variables, data, mcf_nodes, fs>>

\* No method can be called on a manager that was not produced.
ManagerExists ==
    ~(last.op \in {"from_config_files_in_directory", "from_json"} /\ last.result # "ok")

(***************************************************************************)
(* The cascading removals.                                                 *)
(***************************************************************************)
FilesOfProvenances(P) == {f \in DOMAIN inputFiles : inputFiles[f].provenance \in P}

\* The InputFiles and the data left when the files of the provenances P go.
DropFiles(files, P) == Restrict(files, (DOMAIN files) \ FilesOfProvenances(P))

\* The provenance field is stripped from the nodes that carry p.
StripProvenance(nodes, p) ==
    [i \in 1..Len(nodes) |->
        IF nodes[i].provenance = p THEN [nodes[i] EXCEPT !.provenance = None] ELSE nodes[i]]

\* The removal as it would be if the Source kept the provenance entry.
DropProvenance_KeepingEntry(srcs, p) == srcs

\* The provenance entry p is removed from the Source that lists it.
DropProvenance(srcs, p) ==
    [s \in DOMAIN srcs |-> [srcs[s] EXCEPT !.provenances = Del(@, p)]]

RemoveProvenanceEffect(p) ==
    /\ inputFiles' = DropFiles(inputFiles, {p})
    /\ data' = DropFiles(data, {p})
    /\ sources' = DropProvenance(sources, p)
    /\ mcf_nodes' = StripProvenance(mcf_nodes, p)

remove_by_provenance(p) ==
    /\ IF p \in KnownProvenances(sources)
       THEN /\ RemoveProvenanceEffect(p)
            /\ last' = [Call("remove_by_provenance", "ok") EXCEPT !.prov = p]
       ELSE /\ UNCHANGED <<inputFiles, data, sources, mcf_nodes>>
            /\ last' = [Call("remove_by_provenance", "NotFound") EXCEPT !.prov = p]
    /\ UNCHANGED <<includeInputSubdirs, groupStatVarsByProperty, variables, fs>>

remove_provenance(p) ==
    /\ IF p \in KnownProvenances(sources)
       THEN /\ RemoveProvenanceEffect(p)
            /\ last' = [Call("remove_provenance", "ok") EXCEPT !.prov = p]
       ELSE /\ UNCHANGED <<inputFiles, data, sources, mcf_nodes>>
            /\ last' = [Call("remove_provenance", "NotFound") EXCEPT !.prov = p]
    /\ UNCHANGED <<includeInputSubdirs, groupStatVarsByProperty, variables, fs>>

\* The removal as it would be if remove_source kept the entry of the Source too.
RemoveSourceEffect_KeepingSource(s, keep_source) ==
    /\ inputFiles' = DropFiles(inputFiles, DOMAIN sources[s].provenances)
    /\ data' = DropFiles(data, DOMAIN sources[s].provenances)
    /\ sources' = sources

\* remove_by_source keeps the entry of the Source, remove_source deletes it.
RemoveSourceEffect(s, keep_source) ==
    /\ inputFiles' = DropFiles(inputFiles, DOMAIN sources[s].provenances)
    /\ data' = DropFiles(data, DOMAIN sources[s].provenances)
    /\ sources' = IF keep_source THEN sources ELSE Del(sources, s)

remove_by_source(s) ==
    /\ IF s \in DOMAIN sources
       THEN /\ RemoveSourceEffect(s, TRUE)
            /\ last' = [Call("remove_by_source", "ok") EXCEPT !.src = s]
       ELSE /\ UNCHANGED <<inputFiles, data, sources>>
            /\ last' = [Call("remove_by_source", "NotFound") EXCEPT !.src = s]
    /\ UNCHANGED <<includeInputSubdirs, groupStatVarsByProperty, variables, mcf_nodes, fs>>

remove_source(s) ==
    /\ IF s \in DOMAIN sources
       THEN /\ RemoveSourceEffect(s, FALSE)
            /\ last' = [Call("remove_source", "ok") EXCEPT !.src = s]
       ELSE /\ UNCHANGED <<inputFiles, data, sources>>
            /\ last' = [Call("remove_source", "NotFound") EXCEPT !.src = s]
    /\ UNCHANGED <<includeInputSubdirs, groupStatVarsByProperty, variables, mcf_nodes, fs>>

\* remove_indicator: the id is dropped from Config.variables and from the
\* node collection, whichever holds it.
IndicatorInVariables(id) == IF variables = <<>> THEN FALSE ELSE id \in DOMAIN variables[1]

IndicatorInNodes(id) == \E i \in 1..Len(mcf_nodes) : mcf_nodes[i].Node = id

remove_indicator(id) ==
    /\ IF IndicatorInVariables(id) \/ IndicatorInNodes(id)
       THEN /\ variables' = IF IndicatorInVariables(id)
                            THEN <<Del(variables[1], id)>> ELSE variables
            /\ mcf_nodes' = MCFNodesRemove(mcf_nodes, id)
            /\ last' = [Call("remove_indicator", "ok") EXCEPT !.key = id]
       ELSE /\ UNCHANGED <<variables, mcf_nodes>>
            /\ last' = [Call("remove_indicator", "NotFound") EXCEPT !.key = id]
    /\ UNCHANGED <<includeInputSubdirs, groupStatVarsByProperty, inputFiles, sources, data, fs>>

(***************************************************************************)
(* The renames.                                                            *)
(***************************************************************************)
\* The map m with the key old rewritten to new.
RenameKey(m, old, new) ==
    [k \in ((DOMAIN m) \ {old}) \cup {new} |-> IF k = new THEN m[old] ELSE m[k]]

RenameProvenanceInSources(srcs, old, new) ==
    [s \in DOMAIN srcs |->
        IF old \in DOMAIN srcs[s].provenances
        THEN [srcs[s] EXCEPT !.provenances = RenameKey(@, old, new)]
        ELSE srcs[s]]

RenameProvenanceInFiles(files, old, new) ==
    [f \in DOMAIN files |->
        IF files[f].provenance = old THEN [files[f] EXCEPT !.provenance = new] ELSE files[f]]

\* properties["provenance"] of every Variable that has it set to old.
RenameProvenanceInVariables(vs, old, new) ==
    IF vs = <<>> THEN vs
    ELSE <<[v \in DOMAIN vs[1] |->
              IF "provenance" \in DOMAIN vs[1][v].properties
                 /\ vs[1][v].properties["provenance"] = old
              THEN [vs[1][v] EXCEPT !.properties = Put(@, "provenance", new)]
              ELSE vs[1][v]]>>

\* The rename as it would be if the nodes were left alone.
RenameProvenanceInNodes_Untouched(nodes, old, new) == nodes

RenameProvenanceInNodes(nodes, old, new) ==
    [i \in 1..Len(nodes) |->
        IF nodes[i].provenance = old THEN [nodes[i] EXCEPT !.provenance = new] ELSE nodes[i]]

RenameNodeIds(nodes, old, new) ==
    [i \in 1..Len(nodes) |->
        IF nodes[i].Node = old THEN [nodes[i] EXCEPT !.Node = new] ELSE nodes[i]]

\* The rename as it would be if a taken target name were accepted.
RenameResult_AcceptingTakenName(old, new, existing) ==
    IF old = new THEN "IdentityError"
    ELSE IF old \notin existing THEN "NotFound"
    ELSE "ok"

\* The error a rename raises, or "ok"; existing: the names in use.
RenameResult(old, new, existing) ==
    IF old = new THEN "IdentityError"
    ELSE IF old \notin existing THEN "NotFound"
    ELSE IF new \in existing THEN "IdentityError"
    ELSE "ok"

RenameCall(op, old, new, result) == [Call(op, result) EXCEPT !.key = old, !.opt = new]

rename_provenance(old, new) ==
    LET result == RenameResult(old, new, KnownProvenances(sources))
    IN /\ IF result = "ok"
          THEN /\ sources' = RenameProvenanceInSources(sources, old, new)
               /\ inputFiles' = RenameProvenanceInFiles(inputFiles, old, new)
               /\ variables' = RenameProvenanceInVariables(variables, old, new)
               /\ mcf_nodes' = RenameProvenanceInNodes(mcf_nodes, old, new)
          ELSE UNCHANGED <<sources, inputFiles, variables, mcf_nodes>>
       /\ last' = RenameCall("rename_provenance", old, new, result)
       /\ UNCHANGED <<includeInputSubdirs, groupStatVarsByProperty, data, fs>>

\* The variable ids in use: the keys of Config.variables and the Node ids.
VariableIds ==
    (IF variables = <<>> THEN {} ELSE DOMAIN variables[1])
       \cup {mcf_nodes[i].Node : i \in 1..Len(mcf_nodes)}

rename_variable(old, new) ==
    LET keys == IF variables = <<>> THEN {} ELSE DOMAIN variables[1]
        result == IF old # new /\ old \in keys /\ new \in VariableIds
                  THEN "IdentityError" ELSE RenameResult(old, new, keys)
    IN /\ IF result = "ok"
          THEN /\ variables' = <<RenameKey(variables[1], old, new)>>
               /\ mcf_nodes' = RenameNodeIds(mcf_nodes, old, new)
          ELSE UNCHANGED <<variables, mcf_nodes>>
       /\ last' = RenameCall("rename_variable", old, new, result)
       /\ UNCHANGED <<includeInputSubdirs, groupStatVarsByProperty, inputFiles, sources,
                      data, fs>>

rename_source(old, new) ==
    LET result == RenameResult(old, new, DOMAIN sources)
    IN /\ sources' = IF result = "ok" THEN RenameKey(sources, old, new) ELSE sources
       /\ last' = RenameCall("rename_source", old, new, result)
       /\ UNCHANGED <<includeInputSubdirs, groupStatVarsByProperty, inputFiles, variables,
                      data, mcf_nodes, fs>>

(***************************************************************************)
(* Specifications.  Each draws the arguments of the calls from small sets. *)
(***************************************************************************)
DictArgs == {None, "{}"}

\* Registering input files and their data, and removing them again.
NextFiles ==
    \/ \E p \in ProvNames, su \in {None, "http://a"} :
          add_provenance(p, "http://b/", "s1", su, FALSE)
    \/ \E p \in ProvNames, d \in Payloads \cup {None}, op \in DictArgs, o \in BOOLEAN :
          add_implicit_schema_file("a.csv", p, d, "Country", op, o)
    \/ \E p \in ProvNames, d \in Payloads \cup {None}, cm \in DictArgs, o \in BOOLEAN :
          add_explicit_schema_file("a.csv", p, d, cm, o)
    \/ \E f \in FileNames, d \in Payloads, o \in BOOLEAN : add_data(d, f, o)
    \/ \E p \in ProvNames : remove_by_provenance(p)
    \/ \E p \in ProvNames : remove_provenance(p)
    \/ remove_by_source("s1")
    \/ remove_source("s1")

SpecFiles == Init /\ [][NextFiles]_vars

\* Editing the Config of a manager: construction, the mutation methods, validation.
Next ==
    \/ \E doc \in DOMAIN JsonDocs : from_json(doc)
    \/ \E v \in {TRUE} : set_includeInputSubdirs(v)
    \/ \E v \in {FALSE} : set_groupStatVarsByProperty(v)
    \/ \E p \in ProvNames, su \in {None, "http://a"}, o \in BOOLEAN :
          add_provenance(p, "http://b/", "s1", su, o)
    \/ \E n \in {"A", "B"}, o \in BOOLEAN : add_variable_to_config("v1", n, <<>>, o)
    \/ \E p \in ProvNames, op \in DictArgs :
          add_implicit_schema_file("a.csv", p, None, "Country", op, FALSE)
    \/ \E p \in ProvNames, cm \in DictArgs :
          add_explicit_schema_file("a.csv", p, None, cm, FALSE)
    \/ validate_config
    \/ config_to_dict

Spec == Init /\ [][Next]_vars

\* Validation at construction, on request and at export, between mutations.
NextValidate ==
    \/ \E doc \in DOMAIN JsonDocs : from_json(doc)
    \/ \E p \in ProvNames, su \in {None, "http://a"}, o \in BOOLEAN :
          add_provenance(p, "http://b/", "s1", su, o)
    \/ \E p \in ProvNames \cup {"unknown"} :
          add_implicit_schema_file("a.csv", p, None, "Country", "{}", FALSE)
    \/ \E p \in ProvNames : remove_provenance(p)
    \/ remove_source("s1")
    \/ validate_config
    \/ config_to_dict
    \/ export_config

SpecValidate == Init /\ [][NextValidate]_vars

(***************************************************************************)
(* C1                                                                      *)
(***************************************************************************)
ValidatingOps == {"validate_config", "config_to_dict", "export_config"}

ProvenanceListed(p, srcs) == \E s \in DOMAIN srcs : p \in DOMAIN srcs[s].provenances

DocHasUnlistedProvenance(doc) ==
    \E k \in DOMAIN JsonDocs[doc].inputFiles :
        ~ProvenanceListed(JsonDocs[doc].inputFiles[k].provenance, JsonDocs[doc].sources)

\* C1: when Config.from_json, validate_config, export_config or config_to_dict
\* succeeds, every InputFile's provenance is listed under some Source; when
\* some InputFile's provenance is listed under no Source, each of them fails.
C1_ProvenanceInSources ==
    /\ (last.op \in ValidatingOps \cup {"from_json"} /\ last.result = "ok")
          => \A f \in DOMAIN inputFiles : ProvenanceListed(inputFiles[f].provenance, sources)
    /\ (last.op \in ValidatingOps
          /\ \E f \in DOMAIN inputFiles : ~ProvenanceListed(inputFiles[f].provenance, sources))
          => last.result = "ValidationError"
    /\ (last.op = "from_json" /\ DocHasUnlistedProvenance(last.key))
          => last.result = "ValidationError"

\* A config file with an InputFile was loaded and passed validation.
C1_Witness ==
    /\ last.op = "from_json" /\ last.result = "ok"
    /\ inputFiles # EmptyMap

\* An export was refused after mutations left an unlisted provenance behind.
C1_WitnessRefused ==
    /\ last.op = "export_config" /\ last.result = "ValidationError"
    /\ \E f \in DOMAIN inputFiles : ~ProvenanceListed(inputFiles[f].provenance, sources)
    /\ sources # EmptyMap

(***************************************************************************)
(* Further specifications.                                                 *)
(***************************************************************************)
\* Every add operation that takes an override flag.
NextAdd ==
    \/ \E p \in ProvNames, su \in {None, "http://a"}, o \in BOOLEAN :
          add_provenance(p, "http://b/", "s1", su, o)
    \/ \E n \in {"A", "B"}, o \in BOOLEAN : add_variable_to_config("v1", n, <<>>, o)
    \/ \E d \in {"df1", None}, o \in BOOLEAN :
          add_implicit_schema_file("a.csv", "p1", d, "Country", "{}", o)
    \/ \E d \in {"df1", None}, o \in BOOLEAN :
          add_explicit_schema_file("a.csv", "p1", d, "{}", o)
    \/ \E f \in FileNames, o \in BOOLEAN : add_data("df2", f, o)
    \/ \E n \in NodeIds, o \in BOOLEAN : add_variable_group_to_mcf(n, None, o)

SpecAdd == Init /\ [][NextAdd]_vars

\* Sources and their provenances.
NextProvenance ==
    \/ \E p \in ProvNames, pu \in RawUrls, su \in RawUrls \cup {None}, o \in BOOLEAN :
          add_provenance(p, pu, "s1", su, o)
    \/ \E su \in RawUrls \cup {None}, o \in BOOLEAN :
          add_provenance("p1", "http://b/", "s2", su, o)

SpecProvenance == Init /\ [][NextProvenance]_vars

\* Filling a manager and exporting it.
NextExport ==
    \/ add_provenance("p1", "http://b/", "s1", "http://a", FALSE)
    \/ \E d \in {"df1", None} :
          add_implicit_schema_file("a.csv", "p1", d, "Country", "{}", TRUE)
    \/ \E n \in NodeIds : add_variable_group_to_mcf(n, None, FALSE)
    \/ export_config
    \/ export_data
    \/ \E o \in BOOLEAN : export_mfc_file(o)
    \/ \E o \in BOOLEAN : export_all(o)
    \/ \E o \in BOOLEAN : mcf_nodes_export_to_mcf_file(o)

SpecExport == Init /\ [][NextExport]_vars

\* Sources, files with data and nodes, and the cascading removals.
NextRemove ==
    \/ \E p \in ProvNames : add_provenance(p, "http://b/", "s1", "http://a", FALSE)
    \/ add_provenance("p2", "http://b/", "s2", "http://a", FALSE)
    \/ \E f \in FileNames, p \in {"p1", "p2"} :
          add_implicit_schema_file(f, p, "df1", "Country", "{}", TRUE)
    \/ \E p \in {"p1", None} : add_variable_group_to_mcf("n1", p, FALSE)
    \/ \E p \in ProvNames : remove_by_provenance(p)
    \/ \E p \in ProvNames : remove_provenance(p)
    \/ \E s \in {"s1", "s2"} : remove_by_source(s)
    \/ \E s \in {"s1", "s2"} : remove_source(s)

SpecRemove == Init /\ [][NextRemove]_vars

(***************************************************************************)
(* C2                                                                      *)
(***************************************************************************)
\* The key an add call is about exists already.
AddKeyExists(call) ==
    CASE call.op = "add_provenance" ->
            /\ call.src \in DOMAIN sources
            /\ call.prov \in DOMAIN sources[call.src].provenances
      [] call.op = "add_variable_to_config" ->
            /\ variables # <<>>
            /\ call.key \in DOMAIN variables[1]
      [] call.op \in {"add_implicit_schema_file", "add_explicit_schema_file", "add_data"} ->
            call.key \in DOMAIN data
      [] call.op = "add_variable_group_to_mcf" ->
            \E i \in 1..Len(mcf_nodes) : mcf_nodes[i].Node = call.key
      [] OTHER -> FALSE

\* C2: an add operation called with override=false on a key that exists
\* already fails with a duplicate error and leaves sources, inputFiles,
\* variables, the data map and the node collection unchanged.
C2_DuplicateAddFailsUnchanged ==
    [][(~last'.override /\ AddKeyExists(last'))
          => (last'.result = "DuplicateError" /\ UNCHANGED manager_vars)]_vars

(***************************************************************************)
(* C3                                                                      *)
(***************************************************************************)
SchemaFileOps == {"add_implicit_schema_file", "add_explicit_schema_file"}

\* C3: add_implicit_schema_file and add_explicit_schema_file fail exactly
\* when the file has a data payload already and override is false, the state
\* then being unchanged; in every other case they register or replace the
\* InputFile and store the payload only if one is given.
C3_SchemaFileFailsOnlyOnDuplicateData ==
    [][last'.op \in SchemaFileOps =>
          IF last'.key \in DOMAIN data /\ ~last'.override
          THEN last'.result # "ok" /\ UNCHANGED manager_vars
          ELSE /\ last'.result = "ok"
               /\ last'.key \in DOMAIN inputFiles'
               /\ inputFiles'[last'.key].provenance = last'.prov
               /\ data' = IF last'.payload # None
                          THEN Put(data, last'.key, last'.payload) ELSE data]_vars

(***************************************************************************)
(* C4                                                                      *)
(***************************************************************************)
\* C4: add_data fails with NotRegistered when the file is not a key of
\* inputFiles, and with a duplicate error when a payload exists and override
\* is false, the state being unchanged in both cases; every key of the data
\* map is a key of inputFiles, whatever operations ran.
C4_DataKeysAreRegistered ==
    /\ [](DOMAIN data \subseteq DOMAIN inputFiles)
    /\ [][last'.op = "add_data" =>
             IF last'.key \notin DOMAIN inputFiles
             THEN last'.result = "NotRegistered" /\ UNCHANGED manager_vars
             ELSE IF last'.key \in DOMAIN data /\ ~last'.override
             THEN last'.result = "DuplicateError" /\ UNCHANGED manager_vars
             ELSE last'.result = "ok" /\ data' = Put(data, last'.key, last'.payload)]_vars

\* add_data was refused for an unregistered file while another file holds data.
C4_Witness ==
    /\ last.op = "add_data" /\ last.result = "NotRegistered"
    /\ last.key \notin DOMAIN inputFiles
    /\ data # EmptyMap

(***************************************************************************)
(* C5                                                                      *)
(***************************************************************************)
\* C5: add_provenance on an unknown source name fails when no source_url is
\* given, sources unchanged, and otherwise creates a Source with the given
\* URL holding exactly the given provenance; no add_provenance call changes
\* the URL of a Source that exists.
C5_SourceUrlFixedAtCreation ==
    [][last'.op = "add_provenance" =>
          /\ \A s \in DOMAIN sources :
                s \in DOMAIN sources' /\ sources'[s].url = sources[s].url
          /\ last'.src \notin DOMAIN sources =>
                IF last'.surl = None
                THEN last'.result = "MissingSourceUrl" /\ sources' = sources
                ELSE /\ last'.result = "ok"
                     /\ DOMAIN sources' = DOMAIN sources \cup {last'.src}
                     /\ sources'[last'.src].url = HttpUrl(last'.surl)
                     /\ DOMAIN sources'[last'.src].provenances = {last'.prov}
                     /\ sources'[last'.src].provenances[last'.prov] = HttpUrl(last'.purl)]_vars

\* A later add_provenance named another source_url and the Source kept its URL.
C5_Witness ==
    /\ last.op = "add_provenance" /\ last.result = "ok"
    /\ last.surl # None
    /\ sources[last.src].url # HttpUrl(last.surl)
    /\ last.override

(***************************************************************************)
(* C6                                                                      *)
(***************************************************************************)
MutationOps ==
    {"set_includeInputSubdirs", "set_groupStatVarsByProperty", "add_provenance",
     "add_variable_to_config", "add_implicit_schema_file", "add_explicit_schema_file",
     "add_data"}

\* C6: no mutation method fails because the current Config violates a
\* validation invariant; a validation error comes only from validate_config,
\* config_to_dict and the exports.
C6_MutationsNeverFailValidation ==
    last.op \in MutationOps => last.result # "ValidationError"

(***************************************************************************)
(* C7                                                                      *)
(***************************************************************************)
ExportOps == {"export_config", "export_data", "export_mfc_file", "export_all"}

UnknownProvenanceReferenced ==
    \E f \in DOMAIN inputFiles : ~ProvenanceListed(inputFiles[f].provenance, sources)

\* C7: an export called while an InputFile references an unknown provenance
\* fails with a validation error and writes no file.
C7_ExportsRevalidate ==
    [][(last'.op \in ExportOps /\ UnknownProvenanceReferenced)
          => (last'.result = "ValidationError" /\ fs' = fs)]_vars

(***************************************************************************)
(* C8                                                                      *)
(***************************************************************************)
McfExportOps == {"export_mfc_file", "export_all", "export_to_mcf_file"}

C9_RemoveProvenanceCascade ==
    [][(last'.op \in {"remove_by_provenance", "remove_provenance"} /\ last'.result = "ok") =>
          LET p == last'.prov
              kept == {f \in DOMAIN inputFiles : inputFiles[f].provenance # p}
          IN /\ DOMAIN inputFiles' = kept
             /\ \A f \in kept : inputFiles'[f] = inputFiles[f]
             /\ DOMAIN data' = (DOMAIN data) \cap kept
             /\ \A f \in DOMAIN data' : data'[f] = data[f]
             /\ DOMAIN sources' = DOMAIN sources
             /\ \A s \in DOMAIN sources :
                   /\ sources'[s].url = sources[s].url
                   /\ DOMAIN sources'[s].provenances = (DOMAIN sources[s].provenances) \ {p}
                   /\ \A q \in DOMAIN sources'[s].provenances :
                         sources'[s].provenances[q] = sources[s].provenances[q]
             /\ Len(mcf_nodes') = Len(mcf_nodes)
             /\ \A i \in 1..Len(mcf_nodes) :
                   /\ mcf_nodes'[i].provenance # p
                   /\ mcf_nodes'[i].Node = mcf_nodes[i].Node
                   /\ mcf_nodes[i].provenance # p => mcf_nodes'[i] = mcf_nodes[i]
             /\ UNCHANGED <<includeInputSubdirs, groupStatVarsByProperty, variables>>]_vars

\* A provenance was removed while a file of another provenance, its data
\* and a node were there to be kept.
C9_Witness ==
    /\ last.op \in {"remove_by_provenance", "remove_provenance"} /\ last.result = "ok"
    /\ inputFiles # EmptyMap /\ data # EmptyMap
    /\ Len(mcf_nodes) > 0
    /\ \E s \in DOMAIN sources : sources[s].provenances # EmptyMap

(***************************************************************************)
(* C10                                                                     *)
(***************************************************************************)
\* C10: remove_by_source(s) removes the InputFiles, with their data, whose
\* provenance belongs to s and leaves the entry s in sources; remove_source(s)
\* removes them too and deletes the entry s.
C10_RemoveSourceCascade ==
    [][(last'.op \in {"remove_by_source", "remove_source"} /\ last'.result = "ok") =>
          LET s == last'.src
              owned == DOMAIN sources[s].provenances
              kept == {f \in DOMAIN inputFiles : inputFiles[f].provenance \notin owned}
          IN /\ DOMAIN inputFiles' = kept
             /\ \A f \in kept : inputFiles'[f] = inputFiles[f]
             /\ DOMAIN data' = (DOMAIN data) \cap kept
             /\ \A f \in DOMAIN data' : data'[f] = data[f]
             /\ IF last'.op = "remove_by_source"
                THEN sources' = sources
                ELSE /\ DOMAIN sources' = (DOMAIN sources) \ {s}
                     /\ \A t \in DOMAIN sources' : sources'[t] = sources[t]]_vars

\* remove_source deleted a Source while another Source and one of its files stayed.
C10_Witness ==
    /\ last.op = "remove_source" /\ last.result = "ok"
    /\ last.src \notin DOMAIN sources
    /\ sources # EmptyMap /\ inputFiles # EmptyMap

(***************************************************************************)
(* C11                                                                     *)
(***************************************************************************)
IndicatorIds == {"v1", "n1"}

\* Variables, nodes, a source and a file, and every remove operation.
NextRemoveTargets ==
    \/ add_provenance("p1", "http://b/", "s1", "http://a", FALSE)
    \/ add_implicit_schema_file("a.csv", "p1", "df1", "Country", "{}", TRUE)
    \/ \E id \in IndicatorIds : add_variable_to_config(id, "A", <<>>, TRUE)
    \/ \E id \in IndicatorIds : add_variable_group_to_mcf(id, None, FALSE)
    \/ \E id \in IndicatorIds : mcf_nodes_remove(id)
    \/ \E id \in IndicatorIds : remove_indicator(id)
    \/ \E p \in ProvNames : remove_by_provenance(p)
    \/ \E p \in ProvNames : remove_provenance(p)
    \/ \E s \in {"s1", "s2"} : remove_by_source(s)
    \/ \E s \in {"s1", "s2"} : remove_source(s)

SpecRemoveTargets == Init /\ [][NextRemoveTargets]_vars

RemoveOps ==
    {"remove", "remove_indicator", "remove_by_provenance", "remove_provenance",
     "remove_by_source", "remove_source"}

\* The target of a remove call exists.
RemoveTargetExists(call) ==
    CASE call.op = "remove" -> \E i \in 1..Len(mcf_nodes) : mcf_nodes[i].Node = call.key
      [] call.op = "remove_indicator" ->
            \/ (variables # <<>> /\ call.key \in DOMAIN variables[1])
            \/ \E i \in 1..Len(mcf_nodes) : mcf_nodes[i].Node = call.key
      [] call.op \in {"remove_by_provenance", "remove_provenance"} ->
            \E s \in DOMAIN sources : call.prov \in DOMAIN sources[s].provenances
      [] call.op \in {"remove_by_source", "remove_source"} -> call.src \in DOMAIN sources
      [] OTHER -> TRUE

\* C11: a remove operation whose target does not exist fails with a
\* not-found error and leaves the state unchanged; remove_indicator fails
\* only when the id is in neither Config.variables nor the node collection
\* and otherwise removes it from each of the two that holds it.
C11_RemoveOfAbsentTargetFails ==
    [][last'.op \in RemoveOps =>
          IF ~RemoveTargetExists(last')
          THEN last'.result = "NotFound" /\ UNCHANGED manager_vars
          ELSE /\ last'.result = "ok"
               /\ last'.op \in {"remove", "remove_indicator"} =>
                     /\ \A i \in 1..Len(mcf_nodes') : mcf_nodes'[i].Node # last'.key
                     /\ Len(mcf_nodes') =
                           Cardinality({i \in 1..Len(mcf_nodes) : mcf_nodes[i].Node # last'.key})
               /\ last'.op = "remove_indicator" =>
                     IF variables = <<>> THEN variables' = <<>>
                     ELSE /\ variables' # <<>>
                          /\ DOMAIN variables'[1] = (DOMAIN variables[1]) \ {last'.key}]_vars

\* remove(id) was refused for an id the collection does not hold, while it holds a node.
C11_Witness ==
    /\ last.op = "remove" /\ last.result = "NotFound"
    /\ Len(mcf_nodes) > 0
    /\ \A i \in 1..Len(mcf_nodes) : mcf_nodes[i].Node # last.key

(***************************************************************************)
(* C12, C13                                                                *)
(***************************************************************************)
ProvenanceProperty == [k \in {"provenance"} |-> "p1"]

\* A source, a file, variables and nodes that refer to provenances, and the renames.
NextRename ==
    \/ add_provenance("p1", "http://b/", "s1", "http://a", FALSE)
    \/ add_implicit_schema_file("a.csv", "p1", None, "Country", "{}", FALSE)
    \/ add_variable_to_config("v1", "A", ProvenanceProperty, FALSE)
    \/ add_variable_group_to_mcf("v1", "p1", FALSE)
    \/ \E old \in {"p1", "p2"}, new \in {"p1", "p2"} : rename_provenance(old, new)
    \/ \E old \in {"v1", "v2"}, new \in {"v1", "v2"} : rename_variable(old, new)
    \/ \E old \in {"s1", "s2"}, new \in {"s1", "s2"} : rename_source(old, new)

SpecRename == Init /\ [][NextRename]_vars

RenameOps == {"rename_provenance", "rename_variable", "rename_source"}

\* The name a reference has after old was renamed to new.
Renamed(x, old, new) == IF x = old THEN new ELSE x

\* C12: after a successful rename from old to new every key and reference
\* that was old is new and none equal to old remains: for rename_provenance
\* the provenance key of the Source, every InputFile.provenance, every
\* Variable properties["provenance"] and every node's provenance; for
\* rename_variable the key of Config.variables and every node's Node id; for
\* rename_source the key of Config.sources; everything else is unchanged.
C12_RenameRewritesEveryReference ==
    [][(last'.op \in RenameOps /\ last'.result = "ok") =>
          LET old == last'.key
              new == last'.opt
              R(x) == Renamed(x, old, new)
          IN /\ UNCHANGED <<includeInputSubdirs, groupStatVarsByProperty, data>>
             /\ Len(mcf_nodes') = Len(mcf_nodes)
             /\ (variables = <<>>) = (variables' = <<>>)
             /\ last'.op = "rename_provenance" =>
                   /\ DOMAIN sources' = DOMAIN sources
                   /\ \A s \in DOMAIN sources :
                         /\ sources'[s].url = sources[s].url
                         /\ DOMAIN sources'[s].provenances =
                               {R(q) : q \in DOMAIN sources[s].provenances}
                         /\ \A q \in DOMAIN sources[s].provenances :
                               sources'[s].provenances[R(q)] = sources[s].provenances[q]
                   /\ DOMAIN inputFiles' = DOMAIN inputFiles
                   /\ \A f \in DOMAIN inputFiles :
                         inputFiles'[f] = [inputFiles[f] EXCEPT !.provenance = R(@)]
                   /\ variables # <<>> =>
                         /\ DOMAIN variables'[1] = DOMAIN variables[1]
                         /\ \A v \in DOMAIN variables[1] :
                               /\ variables'[1][v].name = variables[1][v].name
                               /\ DOMAIN variables'[1][v].properties =
                                     DOMAIN variables[1][v].properties
                               /\ \A k \in DOMAIN variables[1][v].properties :
                                     variables'[1][v].properties[k] =
                                        IF k = "provenance"
                                        THEN R(variables[1][v].properties[k])
                                        ELSE variables[1][v].properties[k]
                   /\ \A i \in 1..Len(mcf_nodes) :
                         mcf_nodes'[i] = [mcf_nodes[i] EXCEPT !.provenance = R(@)]
             /\ last'.op = "rename_variable" =>
                   /\ UNCHANGED <<sources, inputFiles>>
                   /\ DOMAIN variables'[1] = {R(v) : v \in DOMAIN variables[1]}
                   /\ \A v \in DOMAIN variables[1] : variables'[1][R(v)] = variables[1][v]
                   /\ \A i \in 1..Len(mcf_nodes) :
                         mcf_nodes'[i] = [mcf_nodes[i] EXCEPT !.Node = R(@)]
             /\ last'.op = "rename_source" =>
                   /\ UNCHANGED <<inputFiles, variables, mcf_nodes>>
                   /\ DOMAIN sources' = {R(s) : s \in DOMAIN sources}
                   /\ \A s \in DOMAIN sources : sources'[R(s)] = sources[s]]_vars

\* A provenance was renamed while a file, a variable and a node referred to it.
C12_Witness ==
    /\ last.op = "rename_provenance" /\ last.result = "ok"
    /\ \E f \in DOMAIN inputFiles : inputFiles[f].provenance = last.opt
    /\ variables # <<>>
    /\ \E v \in DOMAIN variables[1] :
          /\ "provenance" \in DOMAIN variables[1][v].properties
          /\ variables[1][v].properties["provenance"] = last.opt
    /\ \E i \in 1..Len(mcf_nodes) : mcf_nodes[i].provenance = last.opt

\* The names a rename call looks its old and new name up in.
RenameNamespace(call) ==
    CASE call.op = "rename_provenance" ->
            UNION {DOMAIN sources[s].provenances : s \in DOMAIN sources}
      [] call.op = "rename_variable" -> IF variables = <<>> THEN {} ELSE DOMAIN variables[1]
      [] call.op = "rename_source" -> DOMAIN sources
      [] OTHER -> {}

\* C13: a rename fails and leaves the state unchanged when old = new, when
\* old does not exist, or when new names an existing entry.
C13_RenameRefusesCollision ==
    [][(/\ last'.op \in RenameOps
        /\ \/ last'.key = last'.opt
           \/ last'.key \notin RenameNamespace(last')
           \/ last'.opt \in RenameNamespace(last'))
          => (last'.result # "ok" /\ UNCHANGED manager_vars)]_vars

\* A rename onto a name that is taken was refused.
C13_Witness ==
    /\ last.op \in RenameOps /\ last.result = "IdentityError"
    /\ last.key # last.opt
    /\ last.key \in RenameNamespace(last) /\ last.opt \in RenameNamespace(last)

(***************************************************************************)
(* C14                                                                     *)
(***************************************************************************)
\* A manager loaded from a directory, then edited.
NextMerge ==
    \/ \E dir \in DOMAIN Directories : from_config_files_in_directory(dir)
    \/ ManagerExists /\ \E p \in ProvNames, o \in BOOLEAN :
          add_provenance(p, "http://b/", "s1", "http://a", o)
    \/ ManagerExists /\ \E f \in FileNames, d \in Payloads, o \in BOOLEAN : add_data(d, f, o)
    \/ ManagerExists /\ \E p \in ProvNames : remove_provenance(p)

SpecMerge == Init /\ [][NextMerge]_vars

\* C14: from_config_files_in_directory yields the union of the inputFiles of
\* the loaded configs and, per Source name, the union of the provenances;
\* when two loaded configs register the same InputFile key it fails with a
\* duplicate error and produces no manager.
C14_MergeIsAdditive ==
    last.op = "from_config_files_in_directory" =>
        LET cfgs == {SubdirConfigs[d] : d \in Directories[last.key]}
            clash == \E a \in Directories[last.key], b \in Directories[last.key] :
                        /\ a # b
                        /\ \E k \in DOMAIN SubdirConfigs[a].inputFiles :
                              k \in DOMAIN SubdirConfigs[b].inputFiles
        IN IF clash
           THEN /\ last.result = "DuplicateError"
                /\ inputFiles = EmptyMap /\ sources = EmptyMap
           ELSE /\ last.result = "ok"
                /\ DOMAIN inputFiles = UNION {DOMAIN c.inputFiles : c \in cfgs}
                /\ \A c \in cfgs : \A k \in DOMAIN c.inputFiles :
                      inputFiles[k].provenance = c.inputFiles[k].provenance
                /\ DOMAIN sources = UNION {DOMAIN c.sources : c \in cfgs}
                /\ \A s \in DOMAIN sources :
                      DOMAIN sources[s].provenances =
                         UNION {DOMAIN c.sources[s].provenances :
                                   c \in {x \in cfgs : s \in DOMAIN x.sources}}

\* Two configs with the same Source name were merged: two files, one
\* Source with both provenances.
C14_Witness ==
    /\ last.op = "from_config_files_in_directory" /\ last.result = "ok"
    /\ DOMAIN inputFiles = {"a.csv", "b.csv"}
    /\ DOMAIN sources = {"s1"}
    /\ DOMAIN sources["s1"].provenances = {"p1", "p2"}

(***************************************************************************)
(* C15, C16                                                                *)
(***************************************************************************)
\* The operations on the node collection.
NextNodes ==
    \/ \E n \in NodeIds, p \in {"p1", None}, o \in BOOLEAN : add_variable_group_to_mcf(n, p, o)
    \/ \E n \in NodeIds : mcf_nodes_remove(n)
    \/ \E file \in DOMAIN McfFiles : load_from_mcf_file(file)
    \/ \E file \in {"vars.csv", "same.csv"}, o \in BOOLEAN :
          add_variables_to_mcf_from_csv(file, o)
    \/ mcf_nodes_export_to_mcf_file(TRUE)

SpecNodes == Init /\ [][NextNodes]_vars

\* The positions of the nodes with the given Node id.
PositionsOf(nodes, id) == {i \in 1..Len(nodes) : nodes[i].Node = id}

\* C15: adding a node whose Node id the collection holds fails with a
\* duplicate error, the collection unchanged, when override is false, and
\* replaces the node at its position when override is true; a node with a
\* new id is appended at the end.
C15_NodeAddOverride ==
    [][last'.op = "add_variable_group_to_mcf" =>
          LET node == [Node |-> last'.key, provenance |-> last'.prov]
              at == PositionsOf(mcf_nodes, last'.key)
          IN IF at = {} THEN last'.result = "ok" /\ mcf_nodes' = Append(mcf_nodes, node)
             ELSE IF ~last'.override
             THEN last'.result = "DuplicateError" /\ mcf_nodes' = mcf_nodes
             ELSE /\ last'.result = "ok"
                  /\ Len(mcf_nodes') = Len(mcf_nodes)
                  /\ \A i \in 1..Len(mcf_nodes) :
                        mcf_nodes'[i] = IF i \in at THEN node ELSE mcf_nodes[i]]_vars

\* C16: no two nodes of the collection have the same Node id.
C16_NodeIdsUnique ==
    \A i \in 1..Len(mcf_nodes), j \in 1..Len(mcf_nodes) :
        mcf_nodes[i].Node = mcf_nodes[j].Node => i = j

(***************************************************************************)
(* C17                                                                     *)
(***************************************************************************)
\* StatVars with memberOf paths, read from CSV files, and the builder.
NextGroups ==
    \/ \E file \in (DOMAIN CsvFiles) \ {"vars.csv", "same.csv"} :
          add_variables_to_mcf_from_csv(file, FALSE)
    \/ \E n \in {"sv1", "sv2"} : mcf_nodes_remove(n)
    \/ build_stat_var_groups_from_strings("ns")

SpecGroups == Init /\ [][NextGroups]_vars

\* The path prefixes of the StatVars of a collection, as sequences of parts.
PathPrefixes(nodes) ==
    UNION {{SubSeq(PathParts(nodes[i].memberOf), 1, k) :
               k \in 1..Len(PathParts(nodes[i].memberOf))} : i \in 1..Len(nodes)}

\* The group nodes of a collection.
GroupNodes(nodes) == {nodes[i] : i \in {j \in 1..Len(nodes) : "specializationOf" \in DOMAIN nodes[j]}}

\* The collection with its first two nodes swapped.
Swapped(nodes) ==
    [i \in 1..Len(nodes) |-> IF i = 1 THEN nodes[2] ELSE IF i = 2 THEN nodes[1] ELSE nodes[i]]

\* C17: the builder creates exactly one group node per unique path prefix
\* of the processed StatVars, and the set of group nodes is the same for
\* every processing order.
C17_OneGroupPerPathPrefix ==
    [][(last'.op = "build_stat_var_groups_from_strings" /\ last'.result = "ok") =>
          /\ Cardinality(GroupNodes(mcf_nodes')) = Cardinality(PathPrefixes(mcf_nodes))
          /\ Len(mcf_nodes) >= 2 =>
                GroupNodes(BuildStatVarGroups(last'.key, Swapped(mcf_nodes)))
                   = GroupNodes(mcf_nodes')]_vars

(***************************************************************************)
(* C18                                                                     *)
(***************************************************************************)
\* Config.from_json of the text export_config writes: model_validate_json
\* accepts it.
ExportedJsonParses ==
    ConfigModelValidate(ConfigDumpJson.inputFiles, ConfigDumpJson.sources)

\* The Config that from_json builds from that text.
ExportedJsonConfig ==
    [includeInputSubdirs |-> ConfigDumpJson.includeInputSubdirs,
     groupStatVarsByProperty |-> ConfigDumpJson.groupStatVarsByProperty,
     inputFiles |-> [key \in DOMAIN ConfigDumpJson.inputFiles |->
                        InputFileParse(ConfigDumpJson.inputFiles[key])],
     variables |-> ConfigDumpJson.variables,
     sources |-> [s \in DOMAIN ConfigDumpJson.sources |->
                     SourceParse(ConfigDumpJson.sources[s])]]

\* The Config of the manager, field for field.
CurrentConfig ==
    [includeInputSubdirs |-> includeInputSubdirs,
     groupStatVarsByProperty |-> groupStatVarsByProperty,
     inputFiles |-> inputFiles,
     variables |-> variables,
     sources |-> sources]

\* C18: the JSON that export_config writes for a valid Config is parsed by
\* from_json into a Config equal to the original field for field, the schema
\* selector of every InputFile included.
C18_JsonRoundTrip ==
    ConfigAfterValidators(inputFiles, sources) =>
        ExportedJsonParses /\ ExportedJsonConfig = CurrentConfig

(***************************************************************************)
(* C19                                                                     *)
(***************************************************************************)
\* InputFile(**d): the construction of one InputFile, outside any manager.
input_file_validate(d) ==
    /\ last' = [Call("InputFile", IF InputFileValid(d) THEN "ok" ELSE "ValidationError")
                   EXCEPT !.payload = d]
    /\ UNCHANGED <<manager_vars, fs>>

NextInputFile == \E d \in InputFileDicts : input_file_validate(d)

SpecInputFile == Init /\ [][NextInputFile]_vars

UsingImplicit(d) == Get(d, "entityType") # None \/ Get(d, "observationProperties") # None

UsingExplicit(d) == Get(d, "columnMappings") # None \/ Get(d, "format") = "variablePerRow"

\* C19: the validation of an InputFile (its required provenance given)
\* fails exactly when entityType or observationProperties is set and
\* columnMappings is set or format is variablePerRow; every other
\* combination of the four fields passes.
C19_SchemaChoiceFailsExactlyOnBoth ==
    [][(last'.op = "InputFile" /\ Get(last'.payload, "provenance") # None) =>
          (last'.result = "ValidationError"
              <=> (UsingImplicit(last'.payload) /\ UsingExplicit(last'.payload)))]_vars

\* An InputFile with entityType and format variablePerRow, and nothing else
\* of the four, was refused.
C19_Witness ==
    IF last.op = "InputFile"
    THEN /\ last.result = "ValidationError"
         /\ Get(last.payload, "provenance") # None
         /\ Get(last.payload, "entityType") # None
         /\ Get(last.payload, "format") = "variablePerRow"
         /\ Get(last.payload, "columnMappings") = None
    ELSE FALSE

(***************************************************************************)
(* C20                                                                     *)
(***************************************************************************)
\* The Sources that list a provenance name.
SourcesOfProvenance(p) == {s \in DOMAIN sources : p \in DOMAIN sources[s].provenances}

\* C20: every provenance name of the manager is listed under exactly one
\* Source; no name is held under two different Sources.
C20_ProvenanceUnderOneSource ==
    \A p \in KnownProvenances(sources) : Cardinality(SourcesOfProvenance(p)) = 1

(***************************************************************************)
(* C21                                                                     *)
(***************************************************************************)
\* Files registered with and without data, and export_data.
NextExportData ==
    \/ add_provenance("p1", "http://b/", "s1", "http://a", FALSE)
    \/ \E f \in FileNames, d \in Payloads \cup {None} :
          add_implicit_schema_file(f, "p1", d, "Country", "{}", TRUE)
    \/ \E p \in ProvNames : remove_by_provenance(p)
    \/ export_data

SpecExportData == Init /\ [][NextExportData]_vars

DeclaredFields ==
    <<"Node", "name", "typeOf", "dcid", "description", "provenance",
      "shortDisplayName", "subClassOf">>

\* The fields annotated QuotedStr.
QuotedFields == {"name", "description", "provenance", "shortDisplayName"}

\* The property keys of the model beyond the required Node, name and typeOf:
\* one declared field and two extra properties.
OptionalKeys == {"description", "unit", "Zeta"}

\* The values a key takes in the model.
KeyValues(key) ==
    CASE key = "Node" -> {"n1"}
      [] key = "name" -> {"N", "My Name", "\"My Name\""}
      [] key = "typeOf" -> {"dcid:T"}
      [] key = "description" -> {None}
      [] key = "unit" -> {"u", "two words"}
      [] key = "Zeta" -> {"dcs:a b"}

\* str.startswith('"') or str.startswith("'") over the values of the model.
StartsWithQuote(s) == s \in {"\"My Name\""}

\* s.strip('"').strip("'") over the quoted values of the model.
StripQuotes(s) == IF s = "\"My Name\"" THEN "My Name" ELSE s

\* _ensure_quoted
EnsureQuoted(s) ==
    "\"" \o (IF StartsWithQuote(s) THEN StripQuotes(s) ELSE s) \o "\""

\* The serializer of a field: PlainSerializer(_ensure_quoted) on the
\* QuotedStr fields, none on the str fields and on the extra properties.
FieldSerialize(key, value) ==
    IF key \in QuotedFields THEN EnsureQuoted(value) ELSE value

\* The keyword arguments of MCFNode(**kwargs), in the order supplied:
\* sequences of [key, value] with distinct keys, the required keys among them.
NodeKwargs ==
    UNION {{kw \in [1..(3 + Cardinality(opt)) -> UNION {[key : {k}, value : KeyValues(k)] :
                                                        k \in {"Node", "name", "typeOf"} \cup opt}] :
               \A i, j \in DOMAIN kw : i # j => kw[i].key # kw[j].key} :
           opt \in SUBSET OptionalKeys}

IsDeclared(key) == \E i \in DOMAIN DeclaredFields : DeclaredFields[i] = key

\* self.model_dump(exclude_none=True): the declared fields in declaration
\* order, then the extra properties in the order supplied; None left out;
\* each value through the serializer of its field.
ModelDump(kwargs) ==
    LET given(key) == \E i \in DOMAIN kwargs : kwargs[i].key = key /\ kwargs[i].value # None
        valueOf(key) == kwargs[CHOOSE i \in DOMAIN kwargs : kwargs[i].key = key].value
        item(key) == [key |-> key, value |-> FieldSerialize(key, valueOf(key))]
        declared == SelectSeq(DeclaredFields, LAMBDA key : given(key))
        extras == SelectSeq(kwargs, LAMBDA a : ~IsDeclared(a.key) /\ a.value # None)
    IN [i \in 1..Len(declared) |-> item(declared[i])]
         \o [i \in 1..Len(extras) |-> item(extras[i].key)]

\* str comparison over the keys of the model: code points, so an upper-case
\* initial sorts before every lower-case one.
KeyRank(key) ==
    CASE key = "Zeta" -> 1
      [] key = "dcid" -> 2
      [] key = "description" -> 3
      [] key = "name" -> 4
      [] key = "provenance" -> 5
      [] key = "shortDisplayName" -> 6
      [] key = "subClassOf" -> 7
      [] key = "typeOf" -> 8
      [] key = "unit" -> 9

\* Mutant: the items are left in the order of model_dump.
Sorted_AsDumped(items) == items

\* sorted(data.items())
RECURSIVE Sorted(_)
Sorted(items) ==
    IF items = <<>> THEN <<>>
    ELSE LET m == CHOOSE i \in DOMAIN items :
                     \A j \in DOMAIN items : KeyRank(items[i].key) <= KeyRank(items[j].key)
         IN <<items[m]>> \o Sorted([i \in 1..(Len(items) - 1) |->
                                       IF i < m THEN items[i] ELSE items[i + 1]])

\* MCFNode.mcf, as the lines of the text: "\n".join(lines) + "\n\n" ends the
\* last line and adds an empty one.
Mcf(kwargs) ==
    LET dumped == ModelDump(kwargs)
        node == dumped[CHOOSE i \in DOMAIN dumped : dumped[i].key = "Node"]
        rest == Sorted(SelectSeq(dumped, LAMBDA a : a.key # "Node"))
    IN <<"Node: " \o node.value>>
         \o [i \in 1..Len(rest) |-> rest[i].key \o ": " \o rest[i].value]
         \o <<"">>

\* MCFNode(**kwargs).mcf, on a node built for the call.
node_mcf(kwargs) ==
    /\ last.op = "init"
    /\ last' = [Call("mcf", "ok") EXCEPT !.payload = [kwargs |-> kwargs],
                                         !.opt = [mcf |-> Mcf(kwargs)]]
    /\ UNCHANGED <<manager_vars, fs>>

NextMcf == \E kwargs \in NodeKwargs : node_mcf(kwargs)

SpecMcf == Init /\ [][NextMcf]_vars

(***************************************************************************)
(* C22                                                                     *)
(***************************************************************************)
\* The non-null properties of a call, Node apart.
OtherProperties(kwargs) ==
    {kwargs[i] : i \in {j \in DOMAIN kwargs : kwargs[j].key # "Node" /\ kwargs[j].value # None}}

Reversed(s) == [i \in 1..Len(s) |-> s[Len(s) + 1 - i]]

HasWhitespace(v) == v \in {"My Name", "\"My Name\"", "two words", "dcs:a b"}

\* v.startswith(("dcid:", "dcs:", "schema:"))
HasReservedPrefix(v) == v \in {"dcid:T", "dcs:a b"}

\* The value wrapped in one pair of double quotes, unchanged when it has one.
QuotedOnce(v) == IF v = "\"My Name\"" THEN v ELSE "\"" \o v \o "\""

\* C23: every string value of a node, of a declared field or of an extra
\* property, that has interior whitespace and no reserved prefix is
\* serialized in exactly one pair of double quotes, a value that is quoted
\* already being emitted unchanged.
C23_WhitespaceValuesQuotedOnce ==
    [][last'.op = "mcf" =>
          \A a \in OtherProperties(last'.payload.kwargs) :
             (HasWhitespace(a.value) /\ ~HasReservedPrefix(a.value)) =>
                \E i \in DOMAIN last'.opt.mcf :
                   last'.opt.mcf[i] = a.key \o ": " \o QuotedOnce(a.value)]_vars

(***************************************************************************)
(* C24                                                                     *)
(***************************************************************************)
\* The mapping of the registered InputFile that the call's optional
\* argument fills: observationProperties or columnMappings.
MappingOf(op, file) ==
    IF op = "add_implicit_schema_file" THEN file.observationProperties
    ELSE file.columnMappings

\* C24: add_explicit_schema_file called without columnMappings, and
\* add_implicit_schema_file called without observationProperties, succeed
\* (the file having no payload yet, or override given) and register an
\* InputFile whose mapping is empty.
C24_MissingMappingDefaultsToEmpty ==
    [][(/\ last'.op \in SchemaFileOps
        /\ last'.opt = None
        /\ ~(last'.key \in DOMAIN data /\ ~last'.override)) =>
          /\ last'.result = "ok"
          /\ last'.key \in DOMAIN inputFiles'
          /\ IF last'.key \in DOMAIN inputFiles'
             THEN MappingOf(last'.op, inputFiles'[last'.key]) = "{}"
             ELSE FALSE]_vars

(***************************************************************************)
(* C25                                                                     *)
(***************************************************************************)
\* The nodes of a collection with a given Node id.
NodesWithId(nodes, id) == {nodes[i] : i \in {j \in 1..Len(nodes) : nodes[j].Node = id}}

\* C25: after the builder ran, the group of the segment at every depth of
\* every StatVar path specializes the group of the segment one level up in
\* the same path, and the fixed root group at depth 0.
C25_GroupSpecializesParentOfSamePath ==
    [][(last'.op = "build_stat_var_groups_from_strings" /\ last'.result = "ok") =>
          \A n \in 1..Len(mcf_nodes) :
             LET parts == PathParts(mcf_nodes[n].memberOf)
             IN \A idx \in 1..Len(parts) :
                   /\ NodesWithId(mcf_nodes', GroupNodeId(last'.key, parts[idx])) # {}
                   /\ \A g \in NodesWithId(mcf_nodes', GroupNodeId(last'.key, parts[idx])) :
                         g.specializationOf =
                            IF idx = 1 THEN RootGroup
                            ELSE GroupNodeId(last'.key, parts[idx - 1])]_vars

MultiNodeOps == {"add_variables_to_mcf_from_csv", "load_from_mcf_file"}

\* C27: a multi-node mutation that fails leaves the node collection as it
\* was: no node of the failed call remains.
C27_MultiNodeMutationIsAtomic ==
    [][(last'.op \in MultiNodeOps /\ last'.result # "ok") => mcf_nodes' = mcf_nodes]_vars

(***************************************************************************)
(* C28                                                                     *)
(***************************************************************************)
\* The lines that are not blank and have no colon, no key or no value.
InvalidLines(lines) ==
    {i \in DOMAIN lines :
        ~lines[i].blank /\ (~lines[i].sep \/ lines[i].key = "" \/ lines[i].value = "")}

\* The first lines of the blocks: a non-blank line at the start of the file
\* or after a blank line.
BlockStarts(lines) ==
    {i \in DOMAIN lines : ~lines[i].blank /\ (i = 1 \/ lines[IF i = 1 THEN 1 ELSE i - 1].blank)}

\* The blocks whose first line is not "Node: <id>".
BlocksWithoutNodeFirst(lines) == {i \in BlockStarts(lines) : lines[i].key # "Node"}

\* C28: load_from_mcf_file yields one node per block, in file order, blank
\* lines and the end of the file ending a block; it fails with the 1-based
\* line number on a non-blank line without colon, key or value; it fails on
\* a block whose first line is not "Node: <id>".
C28_LoadParsesBlocksOrFails ==
    [][last'.op = "load_from_mcf_file" =>
          LET lines == McfFiles[last'.key]
              invalid == InvalidLines(lines)
              starts == BlockStarts(lines)
              unheaded == BlocksWithoutNodeFirst(lines)
          IN /\ (invalid = {} /\ unheaded = {}) =>
                   /\ last'.result = "ok"
                   /\ Len(mcf_nodes') = Len(mcf_nodes) + Cardinality(starts)
                   /\ \A i \in starts :
                         mcf_nodes'[Len(mcf_nodes) + Cardinality({j \in starts : j <= i})].Node
                            = lines[i].value
             /\ (invalid # {} /\ \A b \in unheaded : \E i \in invalid : i < b) =>
                   \E i \in invalid :
                      /\ \A j \in invalid : i <= j
                      /\ last'.result = InvalidSyntaxError(i)
             /\ unheaded # {} => last'.result # "ok"]_vars

RECURSIVE ReachesRoot(_, _, _)
ReachesRoot(parent, groups, steps) ==
    IF parent = RootGroup THEN TRUE
    ELSE IF steps = 0 THEN FALSE
    ELSE \E g \in groups :
            g.Node = parent /\ ReachesRoot(g.specializationOf, groups, steps - 1)

\* C30: after the builder ran, the specializationOf of every created group
\* is the root group or a group created in the same run, and following it
\* reaches the root group: no cycle, no dangling parent.
C30_GroupsFormTreeUnderRoot ==
    [][(last'.op = "build_stat_var_groups_from_strings" /\ last'.result = "ok") =>
          LET created == {mcf_nodes'[g] : g \in (Len(mcf_nodes) + 1)..Len(mcf_nodes')}
          IN \A g \in created :
                /\ \/ g.specializationOf = RootGroup
                   \/ \E h \in created : h.Node = g.specializationOf
                /\ ReachesRoot(g.specializationOf, created, Cardinality(created))]_vars

\* The builder ran on the paths A/X and X/A, each segment above the other
\* in one of them: X specializes A and A the root group.
C30_Witness ==
    /\ last.op = "build_stat_var_groups_from_strings"
    /\ last.result = "ok"
    /\ Len(mcf_nodes) = 4
    /\ \E i \in 1..Len(mcf_nodes) : Get(mcf_nodes[i], "memberOf") = "dcid: ns/g/A"
    /\ \E g, h \in GroupNodes(mcf_nodes) :
          /\ g.Node = "dcid: ns/g/X"
          /\ g.specializationOf = "dcid: ns/g/A"
          /\ h.Node = "dcid: ns/g/A"
          /\ h.specializationOf = RootGroup
====
